---- MODULE Spec2Model ----
(***************************************************************************)
(* A model of the chip_8 crate: the opcode decoder (src/instruction.rs),   *)
(* the memory with its in-memory call stack (src/memory.rs), the register  *)
(* file (src/registers.rs) and the fetch/decode/execute loop of main       *)
(* (src/main.rs).                                                          *)
(*                                                                         *)
(* Numbers are written in decimal; the hexadecimal value of the source is  *)
(* given in the comment next to it.                                        *)
(***************************************************************************)
EXTENDS Integers, Sequences, FiniteSets, TLC

VARIABLES
    opcode,          \* the u16 word handed to Instruction::from
    instr,           \* the decoded instruction (or the marker of no decode yet)
    data,            \* Memory.data: [u8; 0x1000]
    stack_pointer,   \* Memory.stack_pointer: u16
    endian,          \* byte order of the target (to_ne_bytes / from_ne_bytes)
    last,            \* the last call made on Memory by the host, with its result
    pointer,         \* main: the program counter
    registers,       \* Registers.data: [u8; 16]
    address,         \* Registers.address (the I register)
    vf,              \* main: the local flag `vf`
    buffer,          \* main: the display buffer, SCREEN_WIDTH * SCREEN_HEIGHT words;
                     \* every word written has its 32 bits equal (0 or 0xFFFFFFFF), and
                     \* the model keeps that one bit per word
    status,          \* where the run is: "run", "halt" (break) or "panic"
    overflow_checks, \* whether the build panics on integer overflow (debug) or wraps
    delay,           \* Registers.delay
    sound,           \* Registers.sound
    executed,        \* the last two instructions executed, the latest first
    pops,            \* number of pops a host has made so far
    ticks            \* per timer: the value it was last set to and the number of
                     \* calls of Registers::cycle since

vars == <<opcode, instr, data, stack_pointer, endian, last, pointer, registers,
          address, vf, buffer, status, overflow_checks, delay, sound, executed, pops,
          ticks>>

decodeVars == <<opcode, instr>>
buildVars  == <<endian, overflow_checks>>
regVars    == <<registers, address, delay, sound, ticks>>
engineVars == <<pointer, vf, buffer, executed>>

----------------------------------------------------------------------------
(* Program constants *)

SCREEN_WIDTH  == 64
SCREEN_HEIGHT == 32
MemSize       == 4096    \* 0x1000, the length of Memory.data
ProgramStart  == 512     \* 0x200

Words == 0..65535

----------------------------------------------------------------------------
(* src/instruction.rs: impl From<u16> for Instruction *)

Ins(n, x, y) == [name |-> n, a |-> x, b |-> y]

NoInstr == Ins("none", 0, 0)

\* The arm `_ => todo!()`: the conversion panics and returns no instruction.
Todo == Ins("todo!", 0, 0)

Nibble(value, k) == (value \div (16 ^ k)) % 16      \* nibble k, 0 = lowest
HiByte(value)    == (value \div 256) % 256         \* (value >> 8) as u8
MidByte(value)   == (value \div 16) % 256          \* (value >> 4) as u8
LoByte(value)    == value % 256                    \* value as u8
Low12(value)     == value % 4096                   \* value & 0xFFF

\* The 8xy_ arms, one per low nibble, in the order of the match.
DecodeAlu(value) ==
    CASE value % 16 = 0  -> Ins("LoadRegister", MidByte(value), 0)
      [] value % 16 = 1  -> Ins("Or", MidByte(value), 0)
      [] value % 16 = 2  -> Ins("And", MidByte(value), 0)
      [] value % 16 = 3  -> Ins("Xor", MidByte(value), 0)
      [] value % 16 = 4  -> Ins("Add", MidByte(value), 0)
      [] value % 16 = 5  -> Ins("Sub", MidByte(value), 0)
      [] value % 16 = 6  -> Ins("ShiftRight", MidByte(value), 0)
      [] value % 16 = 7  -> Ins("SubInverted", MidByte(value), 0)
      [] value % 16 = 14 -> Ins("ShiftLeft", MidByte(value), 0)
      [] OTHER           -> Todo

\* The Exxx arms.
DecodeKey(value) ==
    CASE value % 256 = 158 -> Ins("SkipPressed", HiByte(value) % 16, 0)     \* 0x9E
      [] value % 256 = 161 -> Ins("SkipNotPressed", HiByte(value) % 16, 0)  \* 0xA1
      [] OTHER             -> Todo

\* The Fxxx arms.
DecodeMisc(value) ==
    CASE value % 256 = 7  -> Ins("LoadRegisterDelayTimer", HiByte(value) % 16, 0)
      [] value % 256 = 10 -> Ins("LoadKeyPress", HiByte(value) % 16, 0)
      [] value % 256 = 21 -> Ins("LoadDelayTimerRegister", HiByte(value) % 16, 0)
      [] value % 256 = 24 -> Ins("LoadSoundTimerRegister", HiByte(value) % 16, 0)
      [] value % 256 = 30 -> Ins("AddAddresssRegister", HiByte(value) % 16, 0)
      [] value % 256 = 41 -> Ins("LoadSpriteAddress", HiByte(value) % 16, 0)
      [] OTHER            -> Todo

\* 6xkk => Self::LoadByte((value >> 8) as u8, value as u8): no `& 0xF`.
LoadByteReg(value) == HiByte(value)

\* (value >> 8) as u8 & 0xF
ImmReg(value) == HiByte(value) % 16

Decode(value) ==
    CASE value = 224 -> Ins("ClearScreen", 0, 0)                           \* 0x00E0
      [] value = 238 -> Ins("Return", 0, 0)                                \* 0x00EE
      [] value \notin {224, 238} /\ value <= 4095 -> Ins("SystemAddress", value, 0)
      [] Nibble(value, 3) = 1  -> Ins("JumpAddress", Low12(value), 0)
      [] Nibble(value, 3) = 2  -> Ins("CallAddress", Low12(value), 0)
      [] Nibble(value, 3) = 3  -> Ins("SkipEqualRegByte", ImmReg(value), LoByte(value))
      [] Nibble(value, 3) = 4  -> Ins("SkipNotEqualRegByte", ImmReg(value), LoByte(value))
      [] Nibble(value, 3) = 5  ->
            IF value % 16 = 0 THEN Ins("SkipEqualRegisters", MidByte(value), 0) ELSE Todo
      [] Nibble(value, 3) = 6  -> Ins("LoadByte", LoadByteReg(value), LoByte(value))
      [] Nibble(value, 3) = 7  -> Ins("AddByte", ImmReg(value), LoByte(value))
      [] Nibble(value, 3) = 8  -> DecodeAlu(value)
      [] Nibble(value, 3) = 9  ->
            IF value % 16 = 0 THEN Ins("SkipNotEqualReg", MidByte(value), 0) ELSE Todo
      [] Nibble(value, 3) = 10 -> Ins("LoadI", Low12(value), 0)
      [] Nibble(value, 3) = 11 -> Ins("JumpAddressOffset", Low12(value), 0)
      [] Nibble(value, 3) = 12 -> Ins("RandRange", ImmReg(value), LoByte(value))
      [] Nibble(value, 3) = 13 -> Ins("Draw", HiByte(value), LoByte(value))
      [] Nibble(value, 3) = 14 -> DecodeKey(value)
      [] Nibble(value, 3) = 15 -> DecodeMisc(value)

----------------------------------------------------------------------------
(* src/memory.rs *)

Font ==
    << 240, 144, 144, 144, 240,   32,  96,  32,  32, 112,
       240,  16, 240, 128, 240,  240,  16, 240,  16, 240,
       144, 144, 240,  16,  16,  240, 128, 240,  16, 240,
       240, 128, 240, 144, 240,  240,  16,  32,  64,  64,
       240, 144, 240, 144, 240,  240, 144, 240,  16, 240,
       240, 144, 240, 144, 144,  224, 144, 224, 144, 224,
       240, 128, 128, 128, 240,  224, 144, 144, 144, 224,
       240, 128, 240, 128, 240,  240, 128, 240, 128, 128 >>

\* Memory::new: the sprites at the bottom of a zeroed array, the stack pointer
\* right above them (sprites.len() * sprites[0].len() = 80).
NewData == [i \in 0..(MemSize - 1) |-> IF i < Len(Font) THEN Font[i + 1] ELSE 0]
NewStackPointer == Len(Font)

\* address.to_ne_bytes() and u16::from_ne_bytes(word)
ToNeBytes(addr) ==
    IF endian = "little" THEN <<addr % 256, addr \div 256>>
                         ELSE <<addr \div 256, addr % 256>>
\* A from_ne_bytes that reads the two bytes in the order to_ne_bytes does not
\* write them.
FromNeBytesSwapped(b0, b1) ==
    IF endian = "little" THEN 256 * b0 + b1 ELSE b0 + 256 * b1

FromNeBytes(b0, b1) ==
    IF endian = "little" THEN b0 + 256 * b1 ELSE 256 * b0 + b1

\* Memory::load: Some(byte) or None.
Load(d, index) ==
    IF index < MemSize THEN [some |-> TRUE, value |-> d[index]]
                       ELSE [some |-> FALSE, value |-> 0]

\* A store whose lower bound is the decimal 200 that slice_mut uses.
StoreLowBound200(d, index, value) ==
    IF index < 200 \/ index >= 4096
    THEN [ok |-> FALSE, data |-> d]
    ELSE [ok |-> TRUE, data |-> [d EXCEPT ![index] = value]]

\* Memory::store: `..0x200 | 0x1000.. => false`, otherwise the byte is set.
Store(d, index, value) ==
    IF index < 512 \/ index >= 4096
    THEN [ok |-> FALSE, data |-> d]
    ELSE [ok |-> TRUE, data |-> [d EXCEPT ![index] = value]]

\* A push whose full test is `>` where the source has `>=`.
PushFullOffByOne(d, sp, addr) ==
    IF sp + 2 > 512 \/ ~(addr \in 512..4095)
    THEN [ok |-> FALSE, data |-> d, sp |-> sp]
    ELSE [ok   |-> TRUE,
          data |-> [d EXCEPT ![sp] = ToNeBytes(addr)[1], ![sp + 1] = ToNeBytes(addr)[2]],
          sp   |-> sp + 2]

\* Memory::push
Push(d, sp, addr) ==
    IF sp + 2 >= 512 \/ ~(addr \in 512..4095)
    THEN [ok |-> FALSE, data |-> d, sp |-> sp]
    ELSE [ok   |-> TRUE,
          data |-> [d EXCEPT ![sp] = ToNeBytes(addr)[1], ![sp + 1] = ToNeBytes(addr)[2]],
          sp   |-> sp + 2]

\* A pop whose empty test is `<=` where the source has `<`.
PopEmptyOffByOne(d, sp) ==
    IF sp <= 82
    THEN [some |-> FALSE, value |-> 0, sp |-> sp]
    ELSE [some |-> TRUE, value |-> FromNeBytes(d[sp - 2], d[sp - 1]), sp |-> sp - 2]

\* Memory::pop: None below 82, otherwise the word under the decremented pointer.
Pop(d, sp) ==
    IF sp < 82
    THEN [some |-> FALSE, value |-> 0, sp |-> sp]
    ELSE [some |-> TRUE, value |-> FromNeBytes(d[sp - 2], d[sp - 1]), sp |-> sp - 2]

\* Memory::slice: the range is granted when range.end <= 0xFFF; indexing the
\* array with start > end panics.
Slice(start, end) ==
    IF end <= 4095 THEN (IF start <= end THEN "some" ELSE "panic") ELSE "none"

\* A slice_mut without the test on range.start.
SliceMutUnguarded(start, end) ==
    IF end <= 4095
    THEN (IF start <= end THEN "some" ELSE "panic")
    ELSE "none"

\* Memory::slice_mut: granted when range.start >= 200 (decimal) and
\* range.end <= 0xFFF; indexing the array with start > end panics.
SliceMut(start, end) ==
    IF start >= 200 /\ end <= 4095
    THEN (IF start <= end THEN "some" ELSE "panic")
    ELSE "none"

----------------------------------------------------------------------------
(* src/registers.rs *)

\* Registers::get_value / get_value_mut: Some for id < 16, None otherwise.
GetValue(regs, id) ==
    IF id < 16 THEN [some |-> TRUE, value |-> regs[id]]
               ELSE [some |-> FALSE, value |-> 0]

\* Registers::new is not part of the sources: a register file of zeroes.
RegistersNew ==
    [data |-> [r \in 0..15 |-> 0], address |-> 0, delay |-> 0, sound |-> 0]

\* Registers::cycle on the two timers.
CycleWrapping(t) ==
    [delay |-> (t.delay - 1) % 256, sound |-> (t.sound - 1) % 256]

Cycle(t) ==
    [delay |-> IF t.delay > 0 THEN t.delay - 1 ELSE t.delay,
     sound |-> IF t.sound > 0 THEN t.sound - 1 ELSE t.sound]

\* Both timers as Registers::new leaves them, no cycle made.
NoTicks == [set_delay |-> RegistersNew.delay, delay |-> 0,
            set_sound |-> RegistersNew.sound, sound |-> 0]

----------------------------------------------------------------------------
(* A component that does not exist in the run a specification describes. *)
Absent == <<>>

\* last: the call, its arguments a and b (0 where it has none) and what it returned;
\* for pop, a is the address returned.
NoCall == [op |-> "new", ret |-> "none", a |-> 0, b |-> 0]

----------------------------------------------------------------------------
(* The decoder on its own: every 16-bit word is handed to Instruction::from. *)

InitDecode ==
    /\ opcode \in Words
    /\ instr = NoInstr
    /\ data = Absent /\ stack_pointer = 0 /\ endian = "little" /\ last = NoCall
    /\ pointer = 0 /\ registers = RegistersNew.data /\ address = 0 /\ delay = 0 /\ sound = 0
    /\ vf = FALSE /\ buffer = Absent /\ status = "run" /\ overflow_checks = FALSE
    /\ executed = <<>> /\ pops = 0 /\ ticks = NoTicks

DecodeStep ==
    /\ instr = NoInstr
    /\ instr' = Decode(opcode)
    /\ UNCHANGED <<opcode, data, stack_pointer, last, pops, status>>
    /\ UNCHANGED <<buildVars, regVars, engineVars>>

NextDecode == DecodeStep

SpecDecode == InitDecode /\ [][NextDecode]_vars

----------------------------------------------------------------------------
(* The register file on its own: a host setting the timers and calling cycle. *)

TimerValues == {0, 1, 2, 255}

\* cycle is called while each timer has seen fewer than MaxTicks calls since
\* it was set.
MaxTicks == 3

InitTimers ==
    /\ opcode = 0 /\ instr = NoInstr
    /\ data = Absent /\ stack_pointer = 0 /\ endian = "little" /\ last = NoCall
    /\ pointer = 0
    /\ registers = RegistersNew.data /\ address = RegistersNew.address
    /\ delay = RegistersNew.delay /\ sound = RegistersNew.sound
    /\ vf = FALSE /\ buffer = Absent /\ status = "run" /\ overflow_checks \in BOOLEAN
    /\ executed = <<>> /\ pops = 0 /\ ticks = NoTicks

\* Registers::set_delay
SetDelay(value) ==
    /\ delay' = value
    /\ ticks' = [ticks EXCEPT !.set_delay = value, !.delay = 0]
    /\ UNCHANGED <<decodeVars, buildVars, engineVars, data, stack_pointer, last, pops,
                   status, registers, address, sound>>

\* Registers::set_sound_timer
SetSoundTimer(value) ==
    /\ sound' = value
    /\ ticks' = [ticks EXCEPT !.set_sound = value, !.sound = 0]
    /\ UNCHANGED <<decodeVars, buildVars, engineVars, data, stack_pointer, last, pops,
                   status, registers, address, delay>>

\* Registers::cycle
RegCycle ==
    /\ ticks.delay < MaxTicks /\ ticks.sound < MaxTicks
    /\ LET t == Cycle([delay |-> delay, sound |-> sound])
       IN  /\ delay' = t.delay
           /\ sound' = t.sound
    /\ ticks' = [ticks EXCEPT !.delay = @ + 1, !.sound = @ + 1]
    /\ UNCHANGED <<decodeVars, buildVars, engineVars, data, stack_pointer, last, pops,
                   status, registers, address>>

NextTimers ==
    \/ \E value \in TimerValues : SetDelay(value)
    \/ \E value \in TimerValues : SetSoundTimer(value)
    \/ RegCycle

SpecTimers == InitTimers /\ [][NextTimers]_vars

----------------------------------------------------------------------------
(* Memory on its own: a host calling push, pop, store and slice_mut. *)

\* The return address a host pushes when the stack pointer is sp: the two ends
\* of the program region first, then addresses spread over it.
ReturnAddr(sp) ==
    IF sp = 80 THEN 512
    ELSE IF sp = 82 THEN 4095
    ELSE 512 + ((sp * 37) % 3584)

PushAddrs(sp) == {ReturnAddr(sp), 511, 4096}

InitMemory ==
    /\ opcode = 0 /\ instr = NoInstr
    /\ data = NewData
    /\ stack_pointer = NewStackPointer
    /\ endian \in {"little", "big"}
    /\ last = NoCall
    /\ pointer = 0 /\ registers = Absent /\ address = 0 /\ delay = 0 /\ sound = 0
    /\ vf = FALSE /\ buffer = Absent /\ status = "run" /\ overflow_checks = FALSE
    /\ executed = <<>> /\ pops = 0 /\ ticks = NoTicks

Ret(b) == IF b THEN "true" ELSE "false"

MemPush(addr) ==
    /\ status = "run"
    /\ LET r == Push(data, stack_pointer, addr)
       IN  /\ data' = r.data
           /\ stack_pointer' = r.sp
           /\ last' = [op |-> "push", ret |-> Ret(r.ok), a |-> addr, b |-> 0]
    /\ UNCHANGED <<decodeVars, buildVars, regVars, engineVars, status, pops>>

\* At most MaxPops pops are made in a run; pushes are not bounded.
MaxPops == 3

MemPop ==
    /\ status = "run"
    /\ pops < MaxPops
    /\ pops' = pops + 1
    /\ LET r == Pop(data, stack_pointer)
       IN  /\ stack_pointer' = r.sp
           /\ last' = [op  |-> "pop",
                       ret |-> IF r.some THEN "some" ELSE "none",
                       a   |-> r.value,
                       b   |-> 0]
    /\ UNCHANGED <<decodeVars, buildVars, regVars, engineVars, status, data>>

NextStack ==
    \/ \E addr \in PushAddrs(stack_pointer) : MemPush(addr)
    \/ MemPop

SpecStack == InitMemory /\ [][NextStack]_vars

----------------------------------------------------------------------------
(* Memory under store and slice_mut, above a shallow stack. *)

\* Pushes are made up to this depth where stores and bulk writes are explored.
MaxDepth == 2

StoreAddrs  == {0, 511, 512, 4095, 4096, 65535}
StoreValues == {90, 165}

\* start..end ranges asked of slice_mut
SliceRanges ==
    { <<0, 2>>, <<199, 201>>, <<200, 202>>, <<511, 513>>, <<512, 514>>,
      <<512, 4095>>, <<512, 4096>>, <<4094, 4096>>, <<300, 250>>, <<600, 600>> }

MemPushShallow(addr) ==
    /\ stack_pointer < NewStackPointer + 2 * MaxDepth
    /\ MemPush(addr)

MemStore(index, value) ==
    /\ status = "run"
    /\ LET r == Store(data, index, value)
       IN  /\ data' = r.data
           /\ last' = [op |-> "store", ret |-> Ret(r.ok), a |-> index, b |-> value]
    /\ UNCHANGED <<decodeVars, buildVars, regVars, engineVars, status, stack_pointer, pops>>

\* slice_mut(start..end), and the host writing `value` to the first byte of the
\* slice it is given (when it is given one that is not empty).
MemSliceMut(start, end, value) ==
    /\ status = "run"
    /\ LET r == SliceMut(start, end)
       IN  /\ last' = [op |-> "slice_mut", ret |-> r, a |-> start, b |-> end]
           /\ data' = IF r = "some" /\ start < end
                      THEN [data EXCEPT ![start] = value]
                      ELSE data
           /\ status' = IF r = "panic" THEN "panic" ELSE status
    /\ UNCHANGED <<decodeVars, buildVars, regVars, engineVars, stack_pointer, pops>>

NextMem ==
    \/ \E addr \in PushAddrs(stack_pointer) : MemPushShallow(addr)
    \/ \E index \in StoreAddrs, value \in StoreValues : MemStore(index, value)
    \/ \E range \in SliceRanges : MemSliceMut(range[1], range[2], 165)

SpecMem == InitMemory /\ [][NextMem]_vars

----------------------------------------------------------------------------
(* Memory under pushes to any depth, bulk writes and stores near the stack,
   and pops. *)

\* start..end ranges asked of slice_mut: the two bytes of the stack entry at
\* 200, and its second byte with the byte after it.
StackRanges == { <<200, 202>>, <<201, 203>> }

\* Addresses stored to: inside the stack area and the first program byte.
StackStoreAddrs == {200, 512}

\* Pushes are made up to this depth here: the entry at 200 is the 61st.
LiveDepth == 62

MemPushLive ==
    /\ stack_pointer < NewStackPointer + 2 * LiveDepth
    /\ MemPush(ReturnAddr(stack_pointer))

NextLive ==
    \/ MemPushLive
    \/ \E index \in StackStoreAddrs : MemStore(index, 165)
    \/ \E range \in StackRanges : MemSliceMut(range[1], range[2], 165)
    \/ MemPop

SpecLive == InitMemory /\ [][NextLive]_vars

----------------------------------------------------------------------------
(* Memory under pushes to the full stack, pops, and stores and bulk writes
   aimed at the font and at the stack. *)

\* start..end ranges asked of slice_mut: the first font bytes, the last font
\* bytes with the first stack entry, the stack entry at 200.
FontRanges == { <<0, 2>>, <<78, 82>>, <<200, 202>> }

\* Addresses stored to: the first and the last byte of the font.
FontStoreAddrs == {0, 79}

NextFont ==
    \/ \E addr \in PushAddrs(stack_pointer) : MemPush(addr)
    \/ \E index \in FontStoreAddrs : MemStore(index, 165)
    \/ \E range \in FontRanges : MemSliceMut(range[1], range[2], 165)
    \/ MemPop

SpecFont == InitMemory /\ [][NextFont]_vars

----------------------------------------------------------------------------
(* src/main.rs: draw_byte and the loop of main *)

Bit(x, k) == (x \div (2 ^ k)) % 2

\* |, & and ^ on single bits.
BitOp(op, p, q) ==
    CASE op = "|" -> IF p + q > 0 THEN 1 ELSE 0
      [] op = "&" -> p * q
      [] op = "^" -> (p + q) % 2

\* |, & and ^ on two bytes.
Bitwise(op, x, y) ==
      BitOp(op, Bit(x, 0), Bit(y, 0))       + 2 * BitOp(op, Bit(x, 1), Bit(y, 1))
    + 4 * BitOp(op, Bit(x, 2), Bit(y, 2))   + 8 * BitOp(op, Bit(x, 3), Bit(y, 3))
    + 16 * BitOp(op, Bit(x, 4), Bit(y, 4))  + 32 * BitOp(op, Bit(x, 5), Bit(y, 5))
    + 64 * BitOp(op, Bit(x, 6), Bit(y, 6))  + 128 * BitOp(op, Bit(x, 7), Bit(y, 7))

\* An addition or subtraction on a u8 / u16 outside overflowing_* and wrapping
\* shifts: a build with overflow checks panics when the result leaves the
\* type, a build without them wraps.
Checked(result, modulus) ==
    IF result >= 0 /\ result < modulus
    THEN [ok |-> TRUE, value |-> result]
    ELSE [ok |-> ~overflow_checks, value |-> result % modulus]

ClearBuffer == [k \in 0..(SCREEN_WIDTH * SCREEN_HEIGHT - 1) |-> 0]

\* draw_byte: the 8 pixels of row y from column x on (wrapping at the width)
\* are set to the bits of `byte`, the most significant first.
Pixel(x, y, j) == y * SCREEN_WIDTH + ((x + j) % SCREEN_WIDTH)

DrawByte(buf, x, y, byte) ==
    [buf EXCEPT ![Pixel(x, y, 0)] = Bit(byte, 7), ![Pixel(x, y, 1)] = Bit(byte, 6),
                ![Pixel(x, y, 2)] = Bit(byte, 5), ![Pixel(x, y, 3)] = Bit(byte, 4),
                ![Pixel(x, y, 4)] = Bit(byte, 3), ![Pixel(x, y, 5)] = Bit(byte, 2),
                ![Pixel(x, y, 6)] = Bit(byte, 1), ![Pixel(x, y, 7)] = Bit(byte, 0)]

\* What draw_byte returns: whether a set sprite bit met a set pixel.
DrawByteCollides(buf, x, y, byte) ==
    \E j \in 0..7 : Bit(byte, 7 - j) = 1 /\ buf[Pixel(x, y, j)] # 0

\* The loop of Instruction::Draw from row i on: load(I + i), unwrapped, is
\* drawn at (x + i / 5, (i % 5 + y) % SCREEN_HEIGHT); the result of draw_byte
\* is dropped.
RECURSIVE DrawRows(_, _, _, _, _, _, _)
DrawRows(buf, d, base, x, y, i, n) ==
    IF i >= n THEN [ok |-> TRUE, buffer |-> buf]
    ELSE LET b == Load(d, base + i)
         IN  IF ~b.some THEN [ok |-> FALSE, buffer |-> buf]
             ELSE DrawRows(DrawByte(buf, x + (i \div 5), ((i % 5) + y) % SCREEN_HEIGHT,
                                    b.value),
                           d, base, x, y, i + 1, n)

\* The state the match of main works on; flow is "next" when control reaches
\* `pointer += 2`, "continue" when the arm continues the loop, "panic" when an
\* unwrap, a todo!() or an overflow check ends the process.
Machine ==
    [pointer |-> pointer, registers |-> registers, address |-> address, vf |-> vf,
     buffer |-> buffer, data |-> data, sp |-> stack_pointer, flow |-> "next"]

Panicked == [Machine EXCEPT !.flow = "panic"]

\* registers.get_value(id).unwrap() of two ids, then a result for the first.
SetReg(m, id, value) == [m EXCEPT !.registers[id] = value]

\* A skip taken when the condition does not hold.
SkipWhenNot(m, cond) == IF ~cond THEN [m EXCEPT !.pointer = m.pointer + 2] ELSE m

Skip(m, cond) == IF cond THEN [m EXCEPT !.pointer = m.pointer + 2] ELSE m

\* The arms on one register and a byte.
ExecImmediate(i) ==
    LET r == GetValue(registers, i.a)
    IN  IF ~r.some THEN Panicked
        ELSE CASE i.name = "SkipEqualRegByte"    -> Skip(Machine, r.value = i.b)
               [] i.name = "SkipNotEqualRegByte" -> Skip(Machine, r.value # i.b)
               [] i.name = "LoadByte"            -> SetReg(Machine, i.a, i.b)
               [] i.name = "AddByte" ->
                     LET sum == Checked(r.value + i.b, 256)
                     IN  IF sum.ok THEN SetReg(Machine, i.a, sum.value) ELSE Panicked

\* The arms on two registers packed in one byte: x = regs >> 4, y = regs & 0xF.
ExecRegisters(i) ==
    LET x == i.a \div 16
        y == i.a % 16
        vx == registers[x]
        vy == registers[y]
    IN  CASE i.name = "SkipEqualRegisters" -> Skip(Machine, vy = vx)
          [] i.name = "SkipNotEqualReg"    -> Skip(Machine, vy # vx)
          [] i.name = "LoadRegister"       -> SetReg(Machine, x, vy)
          [] i.name = "Or"   -> SetReg(Machine, x, Bitwise("|", vx, vy))
          [] i.name = "And"  -> SetReg(Machine, x, Bitwise("&", vx, vy))
          [] i.name = "Xor"  -> SetReg(Machine, x, Bitwise("^", vx, vy))
          [] i.name = "Add"  ->
                [SetReg(Machine, x, (vx + vy) % 256) EXCEPT !.vf = (vx + vy > 255)]
          [] i.name = "Sub"  ->
                [SetReg(Machine, x, (vx - vy) % 256) EXCEPT !.vf = (vx < vy)]
          [] i.name = "SubInverted" ->
                [SetReg(Machine, x, (vy - vx) % 256) EXCEPT !.vf = (vy < vx)]
          [] i.name = "ShiftRight" ->
                [SetReg(Machine, y, vy \div 2) EXCEPT !.vf = (vy % 2 = 1)]
          [] i.name = "ShiftLeft" ->
                [SetReg(Machine, y, (vy * 2) % 256) EXCEPT !.vf = (vy >= 128)]

\* Instruction::Return => pointer = memory.pop().unwrap() - 2
ExecReturn ==
    LET p == Pop(data, stack_pointer)
        target == Checked(p.value - 2, 65536)
    IN  IF ~p.some \/ ~target.ok THEN Panicked
        ELSE [Machine EXCEPT !.sp = p.sp, !.pointer = target.value]

\* Instruction::CallAddress: the result of push is dropped.
ExecCall(i) ==
    LET p == Push(data, stack_pointer, pointer)
    IN  [Machine EXCEPT !.data = p.data, !.sp = p.sp, !.pointer = i.a]

\* Instruction::JumpAddressOffset => pointer = address + registers.address()
ExecJumpAddressOffset(i) ==
    LET target == Checked(i.a + address, 65536)
    IN  IF target.ok THEN [Machine EXCEPT !.pointer = target.value] ELSE Panicked

\* Instruction::Draw(position, bytes)
ExecDraw(i) ==
    LET x == registers[i.a \div 16]
        y == registers[i.a % 16]
        rows == DrawRows(buffer, data, address, x, y, 0, i.b % 16)
    IN  IF rows.ok THEN [Machine EXCEPT !.buffer = rows.buffer] ELSE Panicked

\* The match of main on the decoded instruction; rnd is rand::random::<u8>().
Exec(i, rnd) ==
    CASE i.name = "todo!"         -> Panicked
      [] i.name = "SystemAddress" -> [Machine EXCEPT !.flow = "continue"]
      [] i.name = "ClearScreen"   -> [Machine EXCEPT !.buffer = ClearBuffer]
      [] i.name = "Return"        -> ExecReturn
      [] i.name = "JumpAddress"   -> [Machine EXCEPT !.pointer = i.a]
      [] i.name = "CallAddress"   -> ExecCall(i)
      [] i.name \in {"SkipEqualRegByte", "SkipNotEqualRegByte", "LoadByte", "AddByte"}
                                  -> ExecImmediate(i)
      [] i.name \in {"SkipEqualRegisters", "SkipNotEqualReg", "LoadRegister", "Or",
                     "And", "Xor", "Add", "Sub", "SubInverted", "ShiftRight",
                     "ShiftLeft"} -> ExecRegisters(i)
      [] i.name = "LoadI"         -> [Machine EXCEPT !.address = i.a]
      [] i.name = "JumpAddressOffset" -> ExecJumpAddressOffset(i)
      [] i.name = "RandRange"     ->
            SetReg(Machine, i.a % 16, Bitwise("&", rnd, i.b))
      [] i.name = "Draw"          -> ExecDraw(i)
      [] OTHER                    -> Panicked    \* the arms that are todo!()

\* u16::from_le_bytes of the two bytes at the program counter.
FetchWord == data[pointer] + 256 * data[pointer + 1]

Record(i, word) ==
    [name |-> i.name, a |-> i.a, b |-> i.b, word |-> word,
     pc |-> pointer, sp |-> stack_pointer]

Remember(e) == IF executed = <<>> THEN <<e>> ELSE <<e, executed[1]>>

\* if pointer >= 0xFFF { break; }
Halt ==
    /\ status = "run"
    /\ pointer >= 4095
    /\ status' = "halt"
    /\ UNCHANGED <<decodeVars, buildVars, regVars, engineVars, data, stack_pointer,
                   last, pops>>

\* memory.slice(pointer..pointer + 2).unwrap() on a range slice refuses.
FetchPanic ==
    /\ status = "run"
    /\ pointer < 4095
    /\ Slice(pointer, pointer + 2) # "some"
    /\ status' = "panic"
    /\ UNCHANGED <<decodeVars, buildVars, regVars, engineVars, data, stack_pointer,
                   last, pops>>

\* One pass of the loop body: fetch, decode, execute, `pointer += 2`. A pass
\* that panics ends the process; the variables keep the values of the state it
\* panicked in.
Step(rnd) ==
    /\ status = "run"
    /\ pointer < 4095
    /\ Slice(pointer, pointer + 2) = "some"
    /\ LET word == FetchWord
           i    == Decode(word)
           m    == Exec(i, rnd)
           next == Checked(m.pointer + 2, 65536)
       IN  IF m.flow = "panic" \/ (m.flow = "next" /\ ~next.ok)
           THEN /\ status' = "panic"
                /\ UNCHANGED <<regVars, engineVars, data, stack_pointer>>
           ELSE /\ status' = "run"
                /\ pointer' = IF m.flow = "continue" THEN m.pointer ELSE next.value
                /\ registers' = m.registers
                /\ address' = m.address
                /\ vf' = m.vf
                /\ buffer' = m.buffer
                /\ data' = m.data
                /\ stack_pointer' = m.sp
                /\ executed' = Remember(Record(i, word))
                /\ UNCHANGED <<delay, sound, ticks>>
    /\ UNCHANGED <<decodeVars, buildVars, last, pops>>

----------------------------------------------------------------------------
(* The run of main over a set of programs. *)

\* Programs are the words the loop decodes, in the order of their addresses.
ProgLen == 2

ControlWords ==
    { 0,        \* 0x0000  SystemAddress(0)
      224,      \* 0x00E0  ClearScreen
      238,      \* 0x00EE  Return
      4608,     \* 0x1200  JumpAddress(0x200)
      8189,     \* 0x1FFD  JumpAddress(0xFFD)
      8188,     \* 0x1FFC  JumpAddress(0xFFC)
      8704,     \* 0x2200  CallAddress(0x200)
      8706,     \* 0x2202  CallAddress(0x202)
      12291,    \* 0x3003  SkipEqualRegByte(0, 3)
      20481,    \* 0x5001  no arm
      27141,    \* 0x6A05  LoadByte
      28675,    \* 0x7003  AddByte(0, 3)
      28927,    \* 0x70FF  AddByte(0, 255)
      40966,    \* 0xA006  LoadI(6)
      45568 }   \* 0xB200  JumpAddressOffset(0x200)

\* Longer programs: a call whose target and the word after it are returns.
Scenarios == { <<8706, 238, 238>>, <<8706, 238, 0>> }

Programs == [1..ProgLen -> ControlWords] \cup Scenarios

\* The bytes of a program as from_le_bytes reads them back: low byte first.
ProgramBytes(prog) ==
    [k \in 1..(2 * Len(prog)) |->
        IF k % 2 = 1 THEN LoByte(prog[(k + 1) \div 2]) ELSE HiByte(prog[k \div 2])]

\* Memory::new with the bytes stored from 0x200 on, one store per byte.
RECURSIVE StoreAll(_, _, _)
StoreAll(d, bytes, k) ==
    IF k > Len(bytes) THEN d
    ELSE StoreAll(Store(d, ProgramStart + k - 1, bytes[k]).data, bytes, k + 1)

Init ==
    /\ opcode = 0 /\ instr = NoInstr
    /\ \E prog \in Programs : data = StoreAll(NewData, ProgramBytes(prog), 1)
    /\ stack_pointer = NewStackPointer
    /\ endian \in {"little", "big"}
    /\ overflow_checks \in BOOLEAN
    /\ last = NoCall
    /\ pointer = ProgramStart
    /\ registers = RegistersNew.data /\ address = RegistersNew.address
    /\ delay = RegistersNew.delay /\ sound = RegistersNew.sound
    /\ vf = FALSE
    /\ buffer = ClearBuffer
    /\ status = "run"
    /\ executed = <<>>
    /\ pops = 0
    /\ ticks = NoTicks

RandBytes == {0, 255}

Next ==
    \/ \E rnd \in RandBytes : Step(rnd)
    \/ FetchPanic
    \/ Halt

Spec == Init /\ [][Next]_vars

----------------------------------------------------------------------------
(* The run of main over programs that fill V0 and V1 and then compute or draw. *)

\* The bytes rand::random::<u8>() returns here, which Cxkk puts in a register.
OperandBytes == {0, 1, 10, 30, 60, 250, 255}

\* The third word of a program, run on the V0 and V1 the first two have set.
AluWords ==
    { 32788,    \* 0x8014  Add(V0, V1)
      32789,    \* 0x8015  Sub(V0, V1)
      32790,    \* 0x8016  ShiftRight
      32791,    \* 0x8017  SubInverted(V0, V1)
      32798,    \* 0x801E  ShiftLeft
      28675,    \* 0x7003  AddByte(0, 3)
      53269,    \* 0xD015  Draw, 5 rows
      53271 }   \* 0xD017  Draw, 7 rows

AluPrograms ==
    { <<49407, 49663, w>> : w \in AluWords }     \* 0xC0FF, 0xC1FF: V0, V1 := random
      \cup { <<27141, 31235, 0>>,                \* 0x6A05, 0x7A03
             <<31237, 31235, 0>>,                \* 0x7A05, 0x7A03
             <<53269, 53269, 0>> }               \* 0xD015 twice

InitAlu ==
    /\ opcode = 0 /\ instr = NoInstr
    /\ \E prog \in AluPrograms : data = StoreAll(NewData, ProgramBytes(prog), 1)
    /\ stack_pointer = NewStackPointer
    /\ endian \in {"little", "big"}
    /\ overflow_checks \in BOOLEAN
    /\ last = NoCall
    /\ pointer = ProgramStart
    /\ registers = RegistersNew.data /\ address = RegistersNew.address
    /\ delay = RegistersNew.delay /\ sound = RegistersNew.sound
    /\ vf = FALSE
    /\ buffer = ClearBuffer
    /\ status = "run"
    /\ executed = <<>>
    /\ pops = 0
    /\ ticks = NoTicks

NextAlu == \E rnd \in OperandBytes : Step(rnd)

SpecAlu == InitAlu /\ [][NextAlu]_vars

----------------------------------------------------------------------------
(* The run of main over programs that branch: conditional skips on V0 and V1,
   and calls whose push fails. *)

\* The third word of a program, run on the V0 and V1 the first two have set.
SkipWords ==
    { 12298,    \* 0x300A  SkipEqualRegByte(0, 10)
      16394,    \* 0x400A  SkipNotEqualRegByte(0, 10)
      20496,    \* 0x5010  SkipEqualRegisters(V0, V1)
      36880 }   \* 0x9010  SkipNotEqualReg(V0, V1)

\* 0x1000 jumps to 0 and leaves the program counter at 2, in the font: its
\* bytes 90 90 at 2 read as 0x9090 and F0 20 at 4 read as 0x20F0, a call made
\* at program counter 4. 0x21FE calls 0x1FE, which leaves the program counter
\* at 0x200 again: the call repeats until the stack is full, and after.
CallPrograms == { <<4096, 0, 0>>, <<8702, 0, 0>> }

BranchPrograms ==
    { <<49407, 49663, w>> : w \in SkipWords } \cup CallPrograms

InitBranch ==
    /\ opcode = 0 /\ instr = NoInstr
    /\ \E prog \in BranchPrograms : data = StoreAll(NewData, ProgramBytes(prog), 1)
    /\ stack_pointer = NewStackPointer
    /\ endian \in {"little", "big"}
    /\ overflow_checks \in BOOLEAN
    /\ last = NoCall
    /\ pointer = ProgramStart
    /\ registers = RegistersNew.data /\ address = RegistersNew.address
    /\ delay = RegistersNew.delay /\ sound = RegistersNew.sound
    /\ vf = FALSE
    /\ buffer = ClearBuffer
    /\ status = "run"
    /\ executed = <<>>
    /\ pops = 0
    /\ ticks = NoTicks

NextBranch == \E rnd \in OperandBytes : Step(rnd)

SpecBranch == InitBranch /\ [][NextBranch]_vars

----------------------------------------------------------------------------
(* Claims on the decoder *)

Decoded == instr # NoInstr

\* C1: decoding is total: Instruction::from returns an instruction variant for
\* every 16-bit word and never reaches the catch-all arm `_ => todo!()`.
C1_DecodeTotal == Decoded => instr # Todo

ByteImmediateForms == {"SkipEqualRegByte", "SkipNotEqualRegByte", "LoadByte",
                       "AddByte", "RandRange"}
SingleRegisterForms == {"SkipPressed", "SkipNotPressed", "LoadRegisterDelayTimer",
                        "LoadKeyPress", "LoadDelayTimerRegister",
                        "LoadSoundTimerRegister", "AddAddresssRegister",
                        "LoadSpriteAddress"}

\* C2: the register id carried by a decoded byte-immediate form (3xkk, 4xkk,
\* 6xkk, 7xkk, Cxkk) or single-register form (Ex9E, ExA1, Fx07, Fx0A, Fx15,
\* Fx18, Fx1E, Fx29) is the second nibble x of the opcode, hence below 16, and
\* the register file lookup with that id returns a register.
C2_RegisterIdInRange ==
    (Decoded /\ instr.name \in ByteImmediateForms \cup SingleRegisterForms)
        => /\ instr.a = Nibble(opcode, 2)
           /\ instr.a < 16
           /\ GetValue(registers, instr.a).some

----------------------------------------------------------------------------
(* Claims on Memory *)

InProgramRegion(a) == a >= 512 /\ a < 4096

\* C7: store(addr, byte) returns false and changes neither memory nor the stack
\* pointer when addr < 0x200 or addr >= 0x1000; for addr in [0x200, 0x1000) it
\* returns true, load(addr) then returns byte, and every other byte and the
\* stack pointer are unchanged.
C7_Store ==
    [][last'.op = "store" =>
          IF InProgramRegion(last'.a)
          THEN /\ last'.ret = "true"
               /\ Load(data', last'.a) = [some |-> TRUE, value |-> last'.b]
               /\ data' = [data EXCEPT ![last'.a] = data'[last'.a]]
               /\ stack_pointer' = stack_pointer
          ELSE /\ last'.ret = "false"
               /\ data' = data
               /\ stack_pointer' = stack_pointer]_vars

\* A store into the last byte of the program region has succeeded above a
\* stack that holds an entry, and the byte reads back.
C7_Witness ==
    /\ last = [op |-> "store", ret |-> "true", a |-> 4095, b |-> 90]
    /\ Load(data, 4095).value = 90
    /\ stack_pointer = 82

\* C8: slice_mut returns None, and so gives no write access, for every range
\* whose start is below 0x200 or whose end is above 0x1000; no bulk write
\* changes a byte at an address in [0x000, 0x200).
C8_SliceMutProgramRegionOnly ==
    [][last'.op = "slice_mut" =>
          /\ (last'.a < 512 \/ last'.b > 4096) => last'.ret = "none"
          /\ \A j \in 0..511 : data'[j] = data[j]]_vars

\* C9: on a freshly constructed Memory, slice_mut(0x200..0x200 + n) returns a
\* slice for every n <= 0xE00, the whole program region 0x200..0x1000 included.
C9_ProgramLoadSucceeds ==
    [][(/\ data = NewData /\ stack_pointer = NewStackPointer
        /\ last'.op = "slice_mut"
        /\ last'.a = 512 /\ last'.b >= 512 /\ last'.b <= 4096)
          => last'.ret = "some"]_vars

\* The addresses the host has pushed below sp, the latest first.
Pushed(sp) == [k \in 1..((sp - NewStackPointer) \div 2) |-> ReturnAddr(sp - 2 * k)]

\* Successive pops from sp return the addresses pushed, the latest first: the
\* k-th pop starts where the pop before it left the stack pointer.
PoppedBack(d, sp) ==
    LET pushed == Pushed(sp)
    IN  \A k \in 1..Len(pushed) :
           Pop(d, sp - 2 * (k - 1)) =
              [some |-> TRUE, value |-> pushed[k], sp |-> sp - 2 * k]

\* C10: push(addr) fails exactly when addr is outside [0x200, 0x1000) or when
\* advancing the stack pointer by 2 would reach or exceed 0x200; a failing push
\* changes neither the stack pointer nor any byte of memory, and once a push of
\* a valid address has failed the entries pushed before it are popped back
\* with their original values.
C10_PushFailsCleanly ==
    [][last'.op = "push" =>
          /\ (last'.ret = "false")
                <=> (~InProgramRegion(last'.a) \/ stack_pointer + 2 >= 512)
          /\ (last'.ret = "false")
                => /\ data' = data
                   /\ stack_pointer' = stack_pointer
          /\ (last'.ret = "false" /\ InProgramRegion(last'.a))
                => PoppedBack(data', stack_pointer')]_vars

\* A push of a valid address has failed on the full stack, which still holds
\* its 215 entries.
C10_Witness ==
    /\ last.op = "push" /\ last.ret = "false"
    /\ InProgramRegion(last.a)
    /\ stack_pointer = 510
    /\ Len(Pushed(stack_pointer)) = 215
    /\ PoppedBack(data, stack_pointer)

\* C11: in every state reached by push and pop calls, pop returns None and
\* leaves the stack pointer and memory unchanged if and only if the stack
\* pointer is at its initial value 0x50; otherwise it returns an address and
\* decreases the stack pointer by exactly 2 (memory is unchanged then too).
C11_PopEmptyIffInitial ==
    [][last'.op = "pop" =>
          /\ (last'.ret = "none") <=> (stack_pointer = NewStackPointer)
          /\ (last'.ret = "none")
                => /\ stack_pointer' = stack_pointer
                   /\ data' = data
          /\ (last'.ret # "none")
                => /\ last'.ret = "some"
                   /\ stack_pointer' = stack_pointer - 2
                   /\ data' = data]_vars

\* A pop has failed on a stack that was pushed on and popped empty before: the
\* bytes of the entry are still above the font, the stack pointer is back at
\* 0x50.
C11_Witness ==
    /\ last.op = "pop" /\ last.ret = "none"
    /\ pops = 2
    /\ stack_pointer = NewStackPointer
    /\ FromNeBytes(data[80], data[81]) = ReturnAddr(80)

\* C12: after any sequence of store, slice_mut bulk write, push and pop, every
\* address returned by a successful pop lies in [0x200, 0x1000): no write other
\* than push alters a live call-stack entry.
C12_PoppedInProgramRegion ==
    (last.op = "pop" /\ last.ret = "some") => InProgramRegion(last.a)

----------------------------------------------------------------------------
(* Claims on the loop of main *)

Latest == executed[1]
Stepped == executed # <<>>

ControlTransfers == {"Return", "JumpAddress", "CallAddress", "JumpAddressOffset"}
ConditionalSkips == {"SkipEqualRegByte", "SkipNotEqualRegByte", "SkipEqualRegisters",
                     "SkipNotEqualReg"}

\* The instruction the coming pass of the loop fetches and decodes.
Fetched == Decode(FetchWord)

\* The coming pass fetches an instruction that is neither a control transfer
\* nor a conditional skip.
FetchesStraightLine ==
    /\ status = "run" /\ pointer < 4095 /\ Slice(pointer, pointer + 2) = "some"
    /\ Fetched.name \notin ControlTransfers \cup ConditionalSkips \cup {"todo!"}

\* C3: a step that executes a straight-line instruction leaves the program
\* counter at its previous value plus 2; a step on an ignored system call
\* 0nnn changes no memory, register or display state and advances the program
\* counter by 2. (Steps that end the process in a panic are left aside.)
C3_StraightLineAdvancesBy2 ==
    [][(FetchesStraightLine /\ status' = "run") =>
          /\ pointer' = pointer + 2
          /\ Fetched.name = "SystemAddress" =>
                /\ data' = data /\ stack_pointer' = stack_pointer
                /\ registers' = registers /\ address' = address
                /\ buffer' = buffer]_vars

\* C5: after a step that executes Jump 1nnn or Call 2nnn the program counter
\* is nnn.
C5_TransferSetsCounter ==
    (Stepped /\ Latest.name \in {"JumpAddress", "CallAddress"})
        => pointer = Latest.a

\* C6: after a step that executes JumpAddressOffset Bnnn the program counter
\* is nnn plus the value of V0 at the time of execution, whatever I holds.
C6_OffsetJumpUsesV0 ==
    [][(/\ status = "run" /\ pointer < 4095 /\ Slice(pointer, pointer + 2) = "some"
        /\ Fetched.name = "JumpAddressOffset"
        /\ status' = "run")
          => pointer' = Fetched.a + registers[0]]_vars

\* C4: a Call at P in [0x200, 0xFFE) whose target holds a Return, followed by
\* the Return, leaves the program counter at P + 2 and the stack pointer at its
\* value before the Call.
C4_CallThenReturn ==
    (/\ Len(executed) = 2
     /\ executed[2].name = "CallAddress"
     /\ executed[2].pc >= 512 /\ executed[2].pc < 4094
     /\ Decode(data[executed[2].a] + 256 * data[executed[2].a + 1]).name = "Return"
     /\ executed[1].name = "Return")
        => /\ pointer = executed[2].pc + 2
           /\ stack_pointer = executed[2].sp

----------------------------------------------------------------------------
(* Claims on the arithmetic and drawing arms of main *)

\* The coming pass of the loop fetches a word that decodes to `name`.
Fetching(name) ==
    /\ status = "run" /\ pointer < 4095 /\ Slice(pointer, pointer + 2) = "some"
    /\ Fetched.name = name

\* The second and third nibble of the word fetched, and the registers they name.
OpX == Nibble(FetchWord, 2)
OpY == Nibble(FetchWord, 1)
Vx  == registers[OpX]
Vy  == registers[OpY]

Flag(b) == IF b THEN 1 ELSE 0

\* C13: after a step that executes Add 8xy4 with x # 15, Vx holds
\* (Vx_before + Vy) mod 256 and general register 15 holds 1 if
\* Vx_before + Vy > 255 and 0 otherwise.
C13_AddSetsCarry ==
    [][(Fetching("Add") /\ OpX # 15) =>
          /\ status' = "run"
          /\ registers'[OpX] = (Vx + Vy) % 256
          /\ registers'[15] = Flag(Vx + Vy > 255)]_vars

\* C14: after Sub 8xy5, VF is 1 iff Vx_before >= Vy and Vx is
\* (Vx_before - Vy) mod 256; after SubInverted 8xy7, VF is 1 iff
\* Vy >= Vx_before and Vx is (Vy - Vx_before) mod 256 (x # 15).
C14_SubFlagIsNoBorrow ==
    [][/\ (Fetching("Sub") /\ OpX # 15) =>
             /\ status' = "run"
             /\ registers'[OpX] = (Vx - Vy) % 256
             /\ registers'[15] = Flag(Vx >= Vy)
       /\ (Fetching("SubInverted") /\ OpX # 15) =>
             /\ status' = "run"
             /\ registers'[OpX] = (Vy - Vx) % 256
             /\ registers'[15] = Flag(Vy >= Vx)]_vars

\* C15: the shifts work on Vx, x the second nibble of the opcode: after
\* ShiftRight 8xy6, Vx is Vx_before >> 1 and VF is bit 0 of Vx_before; after
\* ShiftLeft 8xyE, Vx is (Vx_before << 1) mod 256 and VF is bit 7 of
\* Vx_before; Vy is unchanged when y # x and y # 15 (x # 15).
C15_ShiftsActOnVx ==
    [][/\ (Fetching("ShiftRight") /\ OpX # 15) =>
             /\ status' = "run"
             /\ registers'[OpX] = Vx \div 2
             /\ registers'[15] = Bit(Vx, 0)
             /\ (OpY # OpX /\ OpY # 15) => registers'[OpY] = Vy
       /\ (Fetching("ShiftLeft") /\ OpX # 15) =>
             /\ status' = "run"
             /\ registers'[OpX] = (Vx * 2) % 256
             /\ registers'[15] = Bit(Vx, 7)
             /\ (OpY # OpX /\ OpY # 15) => registers'[OpY] = Vy]_vars

\* C16: for x in 0..14, LoadByte 6xaa leaves register x equal to aa, and
\* AddByte 7xbb after it leaves register x equal to (aa + bb) mod 256, without
\* a failure on overflow, VF and every other register unchanged.
C16_LoadByteThenAddByte ==
    [][/\ (Fetching("LoadByte") /\ OpX # 15) =>
             /\ status' = "run"
             /\ registers' = [registers EXCEPT ![OpX] = LoByte(FetchWord)]
       /\ (Fetching("AddByte") /\ OpX # 15) =>
             /\ status' = "run"
             /\ registers' = [registers EXCEPT ![OpX] = (Vx + LoByte(FetchWord)) % 256]]_vars

\* The sprite bit that Dxyn lays on pixel k of the display: bit 7 - c of the
\* byte at I + r, where the pixel is c columns right of Vx (mod 64) and r rows
\* below Vy (mod 32), c < 8 and r < n; 0 elsewhere.
SpriteBit(k) ==
    LET c == ((k % SCREEN_WIDTH) - (Vx % SCREEN_WIDTH) + SCREEN_WIDTH) % SCREEN_WIDTH
        r == ((k \div SCREEN_WIDTH) - (Vy % SCREEN_HEIGHT) + SCREEN_HEIGHT) % SCREEN_HEIGHT
    IN  IF c < 8 /\ r < Nibble(FetchWord, 0) /\ address + r < MemSize
        THEN Bit(data[address + r], 7 - c)
        ELSE 0

\* C17: Draw Dxyn XORs sprite row r (the byte at I + r, most significant bit
\* first) onto columns (Vx + c) mod 64 of row (Vy + r) mod 32; pixels under a
\* 0 bit are unchanged; VF is 1 iff a pixel that was set is cleared, else 0.
C17_DrawXorsSprite ==
    [][Fetching("Draw") =>
          /\ status' = "run"
          /\ buffer' = [k \in DOMAIN buffer |-> (buffer[k] + SpriteBit(k)) % 2]
          /\ registers'[15] = Flag(\E k \in DOMAIN buffer :
                                      buffer[k] = 1 /\ SpriteBit(k) = 1)]_vars

----------------------------------------------------------------------------
(* Claims on the fetch and on Return *)

\* C19: a step that executes Return while the call stack is empty does not
\* abort the run, and leaves memory, the registers and the stack pointer
\* unchanged.
C19_ReturnOnEmptyStack ==
    [][(Fetching("Return") /\ stack_pointer = NewStackPointer) =>
          /\ status' = "run"
          /\ data' = data
          /\ registers' = registers /\ address' = address
          /\ stack_pointer' = stack_pointer]_vars

\* C20: at every program counter P with 0x200 <= P < 0xFFF (0xFFE included)
\* the fetch succeeds and the word handed to the decoder is the big-endian
\* memory[P] * 256 + memory[P + 1]; the run halts without a fetch only when
\* P >= 0xFFF.
C20_FetchBigEndian ==
    /\ (status = "run" /\ pointer >= ProgramStart /\ pointer < 4095)
          => /\ Slice(pointer, pointer + 2) = "some"
             /\ FetchWord = data[pointer] * 256 + data[pointer + 1]
    /\ status = "halt" => pointer >= 4095

----------------------------------------------------------------------------
(* Claims on Registers *)

Floor0(n) == IF n > 0 THEN n ELSE 0

\* The step is a call of Registers::cycle.
Cycled == ticks'.delay = ticks.delay + 1 /\ ticks'.sound = ticks.sound + 1

\* C18: Registers::cycle sets the delay timer to max(delay - 1, 0) and the
\* sound timer to max(sound - 1, 0), each whatever the other holds, and changes
\* no general register and not the address register; so a timer at 0 stays at
\* 0, and a timer set to n holds max(n - k, 0) after k cycles with no set in
\* between, which is 0 once k reaches n.
C18_CycleFloorsAtZero ==
    /\ [][Cycled =>
             /\ delay' = Floor0(delay - 1) /\ delay' >= 0
             /\ sound' = Floor0(sound - 1) /\ sound' >= 0
             /\ (delay = 0 => delay' = 0) /\ (sound = 0 => sound' = 0)
             /\ registers' = registers
             /\ address' = address]_vars
    /\ [](/\ delay = Floor0(ticks.set_delay - ticks.delay)
          /\ sound = Floor0(ticks.set_sound - ticks.sound)
          /\ (ticks.delay >= ticks.set_delay => delay = 0)
          /\ (ticks.sound >= ticks.set_sound => sound = 0))

\* The delay timer was set to 2 and has been through 3 cycles, the last of
\* them at 0; the sound timer was set to 255 before the last cycle.
C18_Witness ==
    /\ ticks.set_delay = 2 /\ ticks.delay = 3 /\ delay = 0
    /\ ticks.set_sound = 255 /\ ticks.sound = 1 /\ sound = 254

----------------------------------------------------------------------------
(* Claims on calls and conditional skips *)

\* C21: when the push made by a Call fails (the stack is full, or the program
\* counter is outside [0x200, 0x1000)), the Call does not set the program
\* counter to its target (nor to the word after it), and memory and the stack
\* pointer are unchanged.
C21_FailedCallDoesNotJump ==
    [][(Fetching("CallAddress") /\ ~Push(data, stack_pointer, pointer).ok) =>
          /\ pointer' \notin {Fetched.a, Fetched.a + 2}
          /\ data' = data
          /\ stack_pointer' = stack_pointer]_vars

\* The condition of the skip fetched, from the nibbles of its opcode.
SkipCondition ==
    CASE Nibble(FetchWord, 3) = 3 -> Vx = LoByte(FetchWord)
      [] Nibble(FetchWord, 3) = 4 -> Vx # LoByte(FetchWord)
      [] Nibble(FetchWord, 3) = 5 -> Vx = Vy
      [] Nibble(FetchWord, 3) = 9 -> Vx # Vy

FetchingSkip == \E name \in ConditionalSkips : Fetching(name)

\* C22: for 3xkk (Vx = kk), 4xkk (Vx # kk), 5xy0 (Vx = Vy) and 9xy0
\* (Vx # Vy) a step advances the program counter by exactly 4 when the
\* condition holds and by exactly 2 when it does not, and changes no register
\* and no memory.
C22_SkipAdvances ==
    [][FetchingSkip =>
          /\ status' = "run"
          /\ pointer' = pointer + (IF SkipCondition THEN 4 ELSE 2)
          /\ registers' = registers /\ address' = address
          /\ delay' = delay /\ sound' = sound
          /\ data' = data /\ stack_pointer' = stack_pointer]_vars

\* 5xy0 has been executed on two equal registers that are not zero, and the
\* program counter is 4 past it.
C22_Witness ==
    /\ Stepped /\ Latest.name = "SkipEqualRegisters"
    /\ registers[0] = 250 /\ registers[1] = 250
    /\ pointer = Latest.pc + 4

----------------------------------------------------------------------------
(* Claims on the layout of Memory *)

\* C23: in every state reached from Memory::new by store, push, pop and bulk
\* writes, the 80 bytes at [0x000, 0x050) are the preloaded font, the glyph of
\* digit d at 5 * d .. 5 * d + 4 and each byte with a zero low nibble, and the
\* stack pointer is even with 0x50 <= stack pointer < 0x200.
C23_FontAndStackApart ==
    /\ \A d \in 0..15 : \A r \in 0..4 :
          /\ data[5 * d + r] = Font[5 * d + r + 1]
          /\ data[5 * d + r] % 16 = 0
    /\ stack_pointer % 2 = 0
    /\ stack_pointer >= 80 /\ stack_pointer < 512

\* The stack is full, a bulk write has gone into the stack entry at 200, a pop
\* has been made, and the last call was a store to the first font byte, which
\* was refused.
C23_Witness ==
    /\ stack_pointer = 510
    /\ data[200] = 165
    /\ pops >= 1
    /\ last = [op |-> "store", ret |-> "false", a |-> 0, b |-> 165]
    /\ data[0] = Font[1]

----------------------------------------------------------------------------
(* Claims on the order of the call stack *)

\* push called with addrs[k], addrs[k + 1], ... in turn, up to the first that
\* fails.
RECURSIVE PushAll(_, _, _, _)
PushAll(d, sp, addrs, k) ==
    IF k > Len(addrs) THEN [ok |-> TRUE, data |-> d, sp |-> sp]
    ELSE LET p == Push(d, sp, addrs[k])
         IN  IF p.ok THEN PushAll(p.data, p.sp, addrs, k + 1)
                     ELSE [ok |-> FALSE, data |-> d, sp |-> sp]

\* pop called n times: the addresses returned, in the order of the calls, and
\* the stack pointer left.
RECURSIVE PopAll(_, _, _)
PopAll(d, sp, n) ==
    IF n = 0 THEN [values |-> <<>>, sp |-> sp]
    ELSE LET q == Pop(d, sp)
         IN  IF ~q.some THEN [values |-> <<>>, sp |-> sp]
             ELSE LET rest == PopAll(d, q.sp, n - 1)
                  IN  [values |-> <<q.value>> \o rest.values, sp |-> rest.sp]

Reverse(seq) == [k \in 1..Len(seq) |-> seq[Len(seq) + 1 - k]]

\* The addresses pushed and the longest run of pushes tried from a state.
LifoAddrs == {512, 2000, 4095}
MaxLifo == 2
LifoSeqs == UNION { [1..k -> LifoAddrs] : k \in 1..MaxLifo }

\* C24: from any state reached by pushes and pops, k successful pushes of
\* a1..ak (each in [0x200, 0x1000)) followed by k pops return ak, ..., a1 in
\* that order, put the stack pointer back where it was, and leave the entries
\* that were on the stack before untouched.
C24_LastInFirstOut ==
    \A addrs \in LifoSeqs :
        LET p == PushAll(data, stack_pointer, addrs, 1)
            q == PopAll(p.data, p.sp, Len(addrs))
        IN  p.ok =>
              /\ q.values = Reverse(addrs)
              /\ q.sp = stack_pointer
              /\ \A j \in NewStackPointer..(stack_pointer - 1) : p.data[j] = data[j]

\* A pop has just succeeded on a target of the other byte order, the stack
\* holds entries and has room for exactly two more, and two pushes followed by
\* two pops give the two addresses back in reverse.
C24_Witness ==
    /\ last.op = "pop" /\ last.ret = "some"
    /\ endian = "big"
    /\ stack_pointer = 506
    /\ PushAll(data, stack_pointer, <<4095, 512>>, 1).ok
    /\ ~PushAll(data, stack_pointer, <<4095, 512, 512>>, 1).ok
    /\ PopAll(PushAll(data, stack_pointer, <<4095, 512>>, 1).data, 510, 2).values
          = <<512, 4095>>

====
